---------------------------- MODULE Spec2Model ----------------------------
(***************************************************************************)
(* World Flora Online crawler (src/scraping/world_flora_online.py).        *)
(*                                                                         *)
(* Spec      : the resumable crawl main() -> process_family ->             *)
(*             process_genus -> process_species over an upstream tree,     *)
(*             with the record store file, the completion ledger file,     *)
(*             the in-memory completed sets, process crashes and re-runs.  *)
(* FetchSpec : one handler (process_family or process_species) on one node *)
(*             with get_page_content's retry loop taken attempt by         *)
(*             attempt.                                                    *)
(* PoolSpec  : one run of main() against an order with more families than  *)
(*             the family pool has threads.                                *)
(* LoadSpec  : load_completed_items() over ledger files of every content.  *)
(***************************************************************************)
EXTENDS Naturals, Integers, Sequences, FiniteSets, Bags, TLC

(***************************************************************************)
(* Bounds of the model and program constants.                              *)
(***************************************************************************)
\* Number of processes (runs of main()) launched one after the other.
MaxRuns == 2

\* Number of lines of the ledger files load_completed_items() is run on.
MaxLines == 3

\* Number of failures the environment injects over the whole execution
\* (failed fetch or save, failed or malformed enumeration, failed ledger
\* write).  Process kills are bounded by MaxRuns instead.
MaxFaults == 2

\* Largest max_workers NestSpec hands to the nested pools.
MaxWidth == 2

\* main(): MAX_WORKERS = 3, handed down to every nested pool.
MAX_WORKERS == 3

\* get_page_content(url, max_retries=5)
MAX_RETRIES == 5

(***************************************************************************)
(* The upstream taxonomy (what the taxonTree API answers when it answers). *)
(* Every identifier occurs at one position of the tree.  Two taxonomies    *)
(* are served: a deep one (order, family, genus, species) and a wide one   *)
(* (an order with more families than the pool has threads).                *)
(***************************************************************************)
VARIABLE upstream   \* "deep" | "wide": the taxonomy behind the API

Root == "root"

Orders == {"o1", "o2", "w1", "w2"}

Families == {"f1", "f2", "f3", "f4", "f5", "f6", "f7"}

Genera == {"g1"}

Species == {"s1"}

Nodes == Orders \cup Families \cup Genera \cup Species

\* The API's list of children of a taxon, in the API's order.
ChildrenSeq(n) ==
    CASE n = "root" -> IF upstream = "deep" THEN <<"o1", "o2">> ELSE <<"w1", "w2">>
      [] n = "o1"   -> <<"f1", "f2">>
      [] n = "w1"   -> <<"f3", "f4", "f5", "f6">>
      [] n = "w2"   -> <<"f7">>
      [] n = "f1"   -> <<"g1">>
      [] n = "g1"   -> <<"s1">>
      [] OTHER      -> <<>>

\* page_type of a node: the rank the orchestrator handles it at.
Rank(n) ==
    CASE n \in Orders   -> "order"
      [] n \in Families -> "family"
      [] n \in Genera   -> "genus"
      [] OTHER          -> "species"

Ranks == {"order", "family", "genus", "species"}

\* The rank a node's children are processed at (species are leaves).
ChildRank(r) ==
    CASE r = "order"  -> "family"
      [] r = "family" -> "genus"
      [] OTHER        -> "species"

Range(s) == {s[i] : i \in 1..Len(s)}

Parent(n) == CHOOSE p \in Nodes \cup {Root} : n \in Range(ChildrenSeq(p))

RECURSIVE Ancestors(_)
Ancestors(n) ==
    IF n \in Orders THEN {} ELSE {Parent(n)} \cup Ancestors(Parent(n))

Descendants(n) == {d \in Nodes : n \in Ancestors(d)}

(***************************************************************************)
(* State.                                                                  *)
(***************************************************************************)
VARIABLES
    run,        \* number of the current process (run of main())
    phase,      \* "loaded" | "running" | "ended" | "aborted"
    orders,     \* main(): the local list `orders`
    pc,         \* where the thread handling each node is
    saved,      \* the locals order_saved / family_saved / genus_saved / species_saved
    kids,       \* the locals families / genera / species_list
    completed,  \* the in-memory dict of four sets
    ledger,     \* completed_items.jsonl: sequence of event lines
    store,      \* world_flora_online.jsonl: bag of record lines
    \* history of the current process, kept to state the properties:
    ledgerAtLoad, \* the ledger file as load_completed_items() read it
    storeAtLoad,  \* the record store file as the process found it
    net,          \* the requests the process has issued so far
    prevFull,     \* the previous process returned with every order Completed
    faults,       \* failures injected so far
    delays,       \* time.sleep(random.uniform(..)) calls made by each node's handler
    interrupted   \* the previous process was killed before main() returned

files == <<ledger, store>>

hist == <<ledgerAtLoad, storeAtLoad, net, prevFull, faults>>

ghost == <<delays, interrupted>>

crawl == <<upstream, run, phase, orders, pc, saved, kids, completed, ledger,
           store, ledgerAtLoad, storeAtLoad, net, prevFull, faults, delays,
           interrupted>>

\* State of FetchSpec: one handler working on one node.
VARIABLES
    hRank,      \* page_type of the node: which handler runs
    hPc,        \* where the handler is
    attempt,    \* get_page_content: the loop variable `attempt`
    responses,  \* what session.get did on each attempt so far
    sleeps,     \* get_page_content: the time.sleep(...) calls made, in seconds
    hContent,   \* the local family_content / species_content
    hSaved,     \* the local family_saved / species_saved
    hRecords,   \* record lines appended for the node
    hEvents,    \* ledger lines appended for the node
    hCompleted, \* the node is in completed[page_type]
    hDelays     \* politeness sleeps made by the handler

handler == <<hRank, hPc, attempt, responses, sleeps, hContent, hSaved,
             hRecords, hEvents, hCompleted, hDelays>>

\* State of ThreadSpec: the threads of one family's subtree, lock by lock.
VARIABLES
    tpc,        \* where each thread is
    jsonl_file, \* the global jsonl_file: 0 for None, else the handle's number
    opened,     \* open() calls made on the record store file
    file_write_lock,      \* holder of each Lock, "none" when free
    completion_file_lock,
    completed_lock,
    recfile,    \* the record store file: pieces <<thread, part>> as written
    evfile,     \* the ledger file: the threads whose event was written
    tsaved,     \* the local *_saved of each thread
    tcompleted  \* the threads' nodes held by the in-memory completed sets

threads == <<tpc, jsonl_file, opened, file_write_lock, completion_file_lock,
             completed_lock, recfile, evfile, tsaved, tcompleted>>

\* State of NestSpec: the workers of the nested pools of one order.
VARIABLES max_workers, npc
nest == <<max_workers, npc>>

vars == <<crawl, handler, threads, nest>>

\* One request on the wire: a page fetch (get_page_content) or a child
\* enumeration (get_api_data on the taxonTree endpoint).
PageFetch(n) == [kind |-> "page", id |-> n]

ChildEnum(n) == [kind |-> "children", id |-> n]

\* A thread that has returned from (or died in) the node's handler.
Terminal == {"skipped", "done", "raised"}

\* One line of a file.
Line(n) == [page_type |-> Rank(n), identifier |-> n]

(***************************************************************************)
(* load_completed_items(): replay of the ledger file.  A line of the file  *)
(* is a record: [text |-> ...] for a line json.loads does not parse (or a  *)
(* blank one), [value |-> ...] for JSON that is not an object, and the     *)
(* object's own fields otherwise.                                          *)
(***************************************************************************)
EmptyCompleted == [r \in Ranks |-> {}]

\* `if not line.strip(): continue`, and `except json.JSONDecodeError`.
SkippedText(line) == "text" \in DOMAIN line

\* data.get(...) raises AttributeError when data is not a dict, and
\* completed[page_type] raises KeyError for a page_type outside the four
\* keys: neither is a JSONDecodeError, so the outer `except Exception`
\* takes it and the loop over the file is left.
LoadRaises(line) ==
    \/ "value" \in DOMAIN line
    \/ /\ line.page_type # ""
       /\ line.identifier # ""
       /\ line.page_type \notin DOMAIN EmptyCompleted

RECURSIVE LoadLines(_, _)
LoadLines(lines, acc) ==
    IF lines = <<>> THEN acc
    ELSE LET data == Head(lines)
         IN  IF SkippedText(data) THEN LoadLines(Tail(lines), acc)
             ELSE IF LoadRaises(data) THEN acc
             ELSE IF data.page_type # "" /\ data.identifier # ""
             THEN LoadLines(Tail(lines),
                      [acc EXCEPT ![data.page_type] = @ \cup {data.identifier}])
             ELSE LoadLines(Tail(lines), acc)

\* Faulty variant: the ledger file is not replayed.
LoadCompletedItemsForgets(file) == EmptyCompleted

\* A missing file and a file without lines both give the four empty sets.
LoadCompletedItems(file) == LoadLines(file, EmptyCompleted)

(***************************************************************************)
(* save_page() and mark_item_completed(): the two file appends.            *)
(***************************************************************************)
\* save_page returns True after the line is written and flushed; an
\* exception anywhere in it writes nothing and returns False.
SavePage(n, ok) == IF ok THEN store (+) SetToBag({Line(n)}) ELSE store

\* mark_item_completed returns None either way: an exception while
\* writing is logged and swallowed.
MarkItemCompleted(n, ok) == IF ok THEN Append(ledger, Line(n)) ELSE ledger

(***************************************************************************)
(* Initial state: first launch in a fresh data directory, after            *)
(* load_completed_items() found no ledger file.                            *)
(***************************************************************************)
FirstLaunch ==
    /\ run = 1
    /\ phase = "loaded"
    /\ orders = <<>>
    /\ pc = [n \in Nodes |-> "idle"]
    /\ saved = [n \in Nodes |-> FALSE]
    /\ kids = [n \in Nodes |-> <<>>]
    /\ completed = EmptyCompleted
    /\ ledger = <<>>
    /\ store = EmptyBag
    /\ ledgerAtLoad = <<>>
    /\ storeAtLoad = EmptyBag
    /\ net = {}
    /\ prevFull = FALSE
    /\ faults = 0
    /\ delays = [n \in Nodes |-> 0]
    /\ interrupted = FALSE

CrawlInit == upstream = "deep" /\ FirstLaunch


(***************************************************************************)
(* Outcomes the environment can hand to a call.                            *)
(***************************************************************************)
\* get_page_content(): page text, an empty 200 body, or None.
Contents == {"text", "empty", "none"}

\* get_api_data() + the parsing loop after it: a list, None (404 or
\* retries exhausted), or a payload the parsing loop raises on.
EnumOutcomes == {"ok", "fail", "raise"}

\* `if content:` -- None and the empty string are both falsy.
Truthy(content) == content = "text"

Index(s, x) == CHOOSE i \in 1..Len(s) : s[i] = x

\* The environment makes the call fail (or not), within its budget.
Inject(failed) ==
    /\ failed => faults < MaxFaults
    /\ faults' = IF failed THEN faults + 1 ELSE faults

\* completed_lock is held by process_family / process_genus from the
\* all(...) test to the end of the `with` block.
CompletedLockHeld ==
    \E m \in Families \cup Genera : pc[m] = "add"

(***************************************************************************)
(* main(): step 1, the root enumeration of orders.                         *)
(***************************************************************************)
\* Faulty variant: main() without its `if not orders_data: return`.
GetOrdersContinuesOnFailure ==
    /\ phase = "loaded"
    /\ \E outcome \in EnumOutcomes :
         /\ Inject(outcome # "ok")
         /\ CASE outcome = "ok" ->
                   /\ orders' = ChildrenSeq(Root)
                   /\ pc' = [n \in Nodes |->
                               IF n \in Range(ChildrenSeq(Root)) THEN "queued" ELSE pc[n]]
                   /\ phase' = "running"
              [] outcome = "fail" ->
                   /\ phase' = "running"
                   /\ UNCHANGED <<orders, pc>>
              [] OTHER ->
                   /\ phase' = "aborted"
                   /\ UNCHANGED <<orders, pc>>
    /\ net' = net \cup {ChildEnum(Root)}
    /\ UNCHANGED <<run, saved, kids, completed, files, ledgerAtLoad, storeAtLoad,
                   prevFull, ghost>>
    /\ UNCHANGED <<handler, upstream, threads, nest>>

GetOrders ==
    /\ phase = "loaded"
    /\ \E outcome \in EnumOutcomes :
         /\ Inject(outcome # "ok")
         /\ CASE outcome = "ok" ->
                   /\ orders' = ChildrenSeq(Root)
                   /\ pc' = [n \in Nodes |->
                               IF n \in Range(ChildrenSeq(Root)) THEN "queued" ELSE pc[n]]
                   /\ phase' = "running"
              [] outcome = "fail" ->
                   \* `if not orders_data: return`
                   /\ phase' = "ended"
                   /\ UNCHANGED <<orders, pc>>
              [] OTHER ->
                   \* the parsing loop raises, nothing catches it
                   /\ phase' = "aborted"
                   /\ UNCHANGED <<orders, pc>>
    /\ net' = net \cup {ChildEnum(Root)}
    /\ UNCHANGED <<run, saved, kids, completed, files, ledgerAtLoad, storeAtLoad,
                   prevFull, ghost>>
    /\ UNCHANGED <<handler, upstream, threads, nest>>

(***************************************************************************)
(* The skip fast-path at the head of every handler.                        *)
(***************************************************************************)
\* Faulty variant: main() without its `if order_id in completed['order']`.
StartOrderNoSkip(o) ==
    /\ phase = "running"
    /\ o \in Range(orders)
    /\ pc[o] = "queued"
    /\ \A j \in 1..Len(orders) : j > Index(orders, o) => pc[orders[j]] \in Terminal
    /\ pc' = [pc EXCEPT ![o] = "fetch"]
    /\ UNCHANGED <<run, phase, orders, saved, kids, completed, files, hist, ghost>>
    /\ UNCHANGED <<handler, upstream, threads, nest>>

\* main(): next iteration of `for order in reversed(orders)`.
StartOrder(o) ==
    /\ phase = "running"
    /\ o \in Range(orders)
    /\ pc[o] = "queued"
    /\ \A j \in 1..Len(orders) : j > Index(orders, o) => pc[orders[j]] \in Terminal
    /\ pc' = [pc EXCEPT ![o] =
                IF o \in completed["order"] THEN "skipped" ELSE "fetch"]
    /\ UNCHANGED <<run, phase, orders, saved, kids, completed, files, hist, ghost>>
    /\ UNCHANGED <<handler, upstream, threads, nest>>

\* Faulty variant: a handler without its fast-path test.
StartWorkerNoSkip(n) ==
    /\ phase = "running"
    /\ n \notin Orders
    /\ pc[n] = "queued"
    /\ LET sibs == kids[Parent(n)]
       IN  /\ Cardinality({m \in Range(sibs) : pc[m] \notin Terminal \cup {"queued"}})
                < MAX_WORKERS
           /\ \A j \in 1..Len(sibs) : j > Index(sibs, n) => pc[sibs[j]] # "queued"
    /\ ~CompletedLockHeld
    /\ pc' = [pc EXCEPT ![n] = "fetch"]
    /\ UNCHANGED <<run, phase, orders, saved, kids, completed, files, hist, ghost>>
    /\ UNCHANGED <<handler, upstream, threads, nest>>

\* Faulty variant: the executor starts a thread for every submitted task.
StartWorkerUnbounded(n) ==
    /\ phase = "running"
    /\ n \notin Orders
    /\ pc[n] = "queued"
    /\ LET sibs == kids[Parent(n)]
       IN  \A j \in 1..Len(sibs) : j > Index(sibs, n) => pc[sibs[j]] # "queued"
    /\ ~CompletedLockHeld
    /\ pc' = [pc EXCEPT ![n] =
                IF n \in completed[Rank(n)] THEN "skipped" ELSE "fetch"]
    /\ UNCHANGED <<run, phase, orders, saved, kids, completed, files, hist, ghost>>
    /\ UNCHANGED <<handler, upstream, threads, nest>>

\* A pool thread picks the task up: process_family / process_genus /
\* process_species, up to the `return` of the fast-path.
StartWorker(n) ==
    /\ phase = "running"
    /\ n \notin Orders
    /\ pc[n] = "queued"
    /\ LET sibs == kids[Parent(n)]
       IN  /\ Cardinality({m \in Range(sibs) : pc[m] \notin Terminal \cup {"queued"}})
                < MAX_WORKERS
           \* the executor's queue is FIFO over reversed(children)
           /\ \A j \in 1..Len(sibs) : j > Index(sibs, n) => pc[sibs[j]] # "queued"
    /\ ~CompletedLockHeld
    /\ pc' = [pc EXCEPT ![n] =
                IF n \in completed[Rank(n)] THEN "skipped" ELSE "fetch"]
    /\ UNCHANGED <<run, phase, orders, saved, kids, completed, files, hist, ghost>>
    /\ UNCHANGED <<handler, upstream, threads, nest>>

(***************************************************************************)
(* get_page_content + save_page + politeness sleep.                        *)
(***************************************************************************)
\* Faulty variant: process_species marks whatever save_page returned.
AfterFetchAlwaysMarks(n, nowSaved) ==
    IF n \in Species THEN "mark" ELSE "enum"

\* Faulty variant: a handler whose own page failed returns at once.
AfterFetchReturnsOnFailure(n, nowSaved) ==
    IF n \in Species
    THEN (IF nowSaved THEN "mark" ELSE "done")
    ELSE (IF nowSaved THEN "enum" ELSE "done")

\* Where the handler goes after its own page: a species to its marking
\* (`if species_saved:`) or to its end, every other rank to the enumeration
\* of its children, saved or not.
AfterFetch(n, nowSaved) ==
    IF n \in Species
    THEN (IF nowSaved THEN "mark" ELSE "done")
    ELSE "enum"

\* Faulty variant: the handler ignores what save_page returned and takes
\* every fetched page for saved.
FetchAndSaveUnchecked(n) ==
    /\ phase = "running"
    /\ pc[n] = "fetch"
    /\ \E content \in Contents, ok \in BOOLEAN :
         LET nowSaved == Truthy(content)
         IN  /\ Inject(~(Truthy(content) /\ ok))
             /\ saved' = [saved EXCEPT ![n] = nowSaved]
             /\ store' = IF Truthy(content) THEN SavePage(n, ok) ELSE store
             /\ pc' = [pc EXCEPT ![n] = AfterFetch(n, nowSaved)]
             \* the sleep that follows: at once in main(), process_family
             \* and process_genus, at the end of process_species
             /\ delays' = [delays EXCEPT ![n] =
                             IF AfterFetch(n, nowSaved) = "mark" THEN @ ELSE @ + 1]
    /\ net' = net \cup {PageFetch(n)}
    /\ UNCHANGED <<run, phase, orders, kids, completed, ledger,
                   ledgerAtLoad, storeAtLoad, prevFull, interrupted>>
    /\ UNCHANGED <<handler, upstream, threads, nest>>

FetchAndSave(n) ==
    /\ phase = "running"
    /\ pc[n] = "fetch"
    /\ \E content \in Contents, ok \in BOOLEAN :
         LET nowSaved == Truthy(content) /\ ok
         IN  /\ Inject(~nowSaved)
             /\ saved' = [saved EXCEPT ![n] = nowSaved]
             /\ store' = IF Truthy(content) THEN SavePage(n, ok) ELSE store
             /\ pc' = [pc EXCEPT ![n] = AfterFetch(n, nowSaved)]
             \* the sleep that follows: at once in main(), process_family
             \* and process_genus, at the end of process_species
             /\ delays' = [delays EXCEPT ![n] =
                             IF AfterFetch(n, nowSaved) = "mark" THEN @ ELSE @ + 1]
    /\ net' = net \cup {PageFetch(n)}
    /\ UNCHANGED <<run, phase, orders, kids, completed, ledger,
                   ledgerAtLoad, storeAtLoad, prevFull, interrupted>>
    /\ UNCHANGED <<handler, upstream, threads, nest>>

(***************************************************************************)
(* get_taxon_children + submission of the children to a fresh pool.        *)
(***************************************************************************)
GetTaxonChildren(n, outcome) ==
    IF outcome = "ok" THEN ChildrenSeq(n) ELSE <<>>

\* Faulty variant: the handler may ask for the children before its own
\* page fetch.
EnumerateBeforeFetch(n) ==
    /\ phase = "running"
    /\ pc[n] \in {"fetch", "enum"}
    /\ \E outcome \in EnumOutcomes :
         /\ Inject(outcome # "ok")
         /\ IF outcome = "raise"
            THEN /\ pc' = [pc EXCEPT ![n] = "raised"]
                 /\ phase' = IF n \in Orders THEN "aborted" ELSE phase
                 /\ UNCHANGED kids
            ELSE LET children == GetTaxonChildren(n, outcome)
                 IN  /\ kids' = [kids EXCEPT ![n] = children]
                     /\ pc' = [m \in Nodes |->
                                 IF m = n THEN "wait"
                                 ELSE IF m \in Range(children) THEN "queued"
                                 ELSE pc[m]]
                     /\ UNCHANGED phase
    /\ net' = net \cup {ChildEnum(n)}
    /\ UNCHANGED <<run, orders, saved, completed, files,
                   ledgerAtLoad, storeAtLoad, prevFull, ghost>>
    /\ UNCHANGED <<handler, upstream, threads, nest>>

Enumerate(n) ==
    /\ phase = "running"
    /\ pc[n] = "enum"
    /\ \E outcome \in EnumOutcomes :
         /\ Inject(outcome # "ok")
         /\ IF outcome = "raise"
            THEN \* the exception leaves the handler: a pool thread's is
                 \* caught at future.result(), main()'s own is not caught
                 /\ pc' = [pc EXCEPT ![n] = "raised"]
                 /\ phase' = IF n \in Orders THEN "aborted" ELSE phase
                 /\ UNCHANGED kids
            ELSE LET children == GetTaxonChildren(n, outcome)
                 IN  /\ kids' = [kids EXCEPT ![n] = children]
                     /\ pc' = [m \in Nodes |->
                                 IF m = n THEN "wait"
                                 ELSE IF m \in Range(children) THEN "queued"
                                 ELSE pc[m]]
                     /\ UNCHANGED phase
    /\ net' = net \cup {ChildEnum(n)}
    /\ UNCHANGED <<run, orders, saved, completed, files,
                   ledgerAtLoad, storeAtLoad, prevFull, ghost>>
    /\ UNCHANGED <<handler, upstream, threads, nest>>

(***************************************************************************)
(* Post-order completion: the block after the pool has drained.            *)
(***************************************************************************)
\* Faulty variant: the test only asks whether the children's threads have
\* returned.
AllChildrenReturned(n) ==
    \A i \in 1..Len(kids[n]) : pc[kids[n][i]] \in Terminal

AllChildrenCompleted(n) ==
    \A i \in 1..Len(kids[n]) : kids[n][i] \in completed[ChildRank(Rank(n))]

\* Faulty variant: `if all_genera_completed:` without `family_saved and`.
ShouldMarkUnsaved(n) == AllChildrenCompleted(n)

ShouldMark(n) == saved[n] /\ AllChildrenCompleted(n)

Finish(n) ==
    /\ phase = "running"
    /\ pc[n] = "wait"
    /\ \A i \in 1..Len(kids[n]) : pc[kids[n][i]] \in Terminal
    /\ ~CompletedLockHeld
    /\ IF ShouldMark(n)
       THEN \E ok \in BOOLEAN :
              /\ Inject(~ok)
              /\ ledger' = MarkItemCompleted(n, ok)
              /\ pc' = [pc EXCEPT ![n] = "add"]
       ELSE /\ pc' = [pc EXCEPT ![n] = "done"]
            /\ UNCHANGED <<ledger, faults>>
    \* main() pauses between two orders: time.sleep(random.uniform(2, 5))
    /\ delays' = [delays EXCEPT ![n] =
                    IF n \in Orders /\ ~ShouldMark(n) THEN @ + 1 ELSE @]
    /\ UNCHANGED <<run, phase, orders, saved, kids, completed, store,
                   ledgerAtLoad, storeAtLoad, net, prevFull, interrupted>>
    /\ UNCHANGED <<handler, upstream, threads, nest>>

\* process_species: `if species_saved: mark_item_completed(...)`.
MarkSpecies(n) ==
    /\ phase = "running"
    /\ n \in Species
    /\ pc[n] = "mark"
    /\ \E ok \in BOOLEAN :
         /\ Inject(~ok)
         /\ ledger' = MarkItemCompleted(n, ok)
    /\ pc' = [pc EXCEPT ![n] = "add"]
    /\ UNCHANGED <<run, phase, orders, saved, kids, completed, store,
                   ledgerAtLoad, storeAtLoad, net, prevFull, ghost>>
    /\ UNCHANGED <<handler, upstream, threads, nest>>

\* Faulty variant: process_species returns without its sleep.
AddCompletedNoSleep(n) ==
    /\ phase = "running"
    /\ pc[n] = "add"
    /\ n \in Species => ~CompletedLockHeld
    /\ completed' = [completed EXCEPT ![Rank(n)] = @ \cup {n}]
    /\ pc' = [pc EXCEPT ![n] = "done"]
    /\ delays' = [delays EXCEPT ![n] = IF n \in Orders THEN @ + 1 ELSE @]
    /\ UNCHANGED <<run, phase, orders, saved, kids, files, hist, interrupted>>
    /\ UNCHANGED <<handler, upstream, threads, nest>>

\* completed[page_type].add(identifier)
AddCompleted(n) ==
    /\ phase = "running"
    /\ pc[n] = "add"
    /\ n \in Species => ~CompletedLockHeld
    /\ completed' = [completed EXCEPT ![Rank(n)] = @ \cup {n}]
    /\ pc' = [pc EXCEPT ![n] = "done"]
    \* process_species ends with its sleep, main()'s iteration with its pause
    /\ delays' = [delays EXCEPT ![n] =
                    IF n \in Species \cup Orders THEN @ + 1 ELSE @]
    /\ UNCHANGED <<run, phase, orders, saved, kids, files, hist, interrupted>>
    /\ UNCHANGED <<handler, upstream, threads, nest>>

(***************************************************************************)
(* End of main(), and the next process.                                    *)
(***************************************************************************)
\* The for loop is exhausted: close_jsonl_file() and return.
EndRun ==
    /\ phase = "running"
    /\ \A i \in 1..Len(orders) : pc[orders[i]] \in Terminal
    /\ phase' = "ended"
    /\ UNCHANGED <<run, orders, pc, saved, kids, completed, files, hist, ghost>>
    /\ UNCHANGED <<handler, upstream, threads, nest>>

\* A new process: everything in memory starts afresh, the two files stay,
\* and main() begins with load_completed_items().
NewProcess ==
    /\ run' = run + 1
    /\ phase' = "loaded"
    /\ orders' = <<>>
    /\ pc' = [n \in Nodes |-> "idle"]
    /\ saved' = [n \in Nodes |-> FALSE]
    /\ kids' = [n \in Nodes |-> <<>>]
    /\ completed' = LoadCompletedItems(ledger)
    /\ ledgerAtLoad' = ledger
    /\ storeAtLoad' = store
    /\ net' = {}
    /\ delays' = [n \in Nodes |-> 0]
    /\ UNCHANGED <<files, faults>>
    /\ UNCHANGED <<handler, upstream, threads, nest>>

\* main() was invoked again after the previous invocation returned or died
\* of an uncaught exception.
Rerun ==
    /\ phase \in {"ended", "aborted"}
    /\ run < MaxRuns
    /\ NewProcess
    /\ prevFull' = (/\ phase = "ended"
                    /\ orders # <<>>
                    /\ \A i \in 1..Len(orders) : orders[i] \in completed["order"])
    /\ interrupted' = FALSE

\* The process is killed at an arbitrary point and launched again.
Crash ==
    /\ phase \in {"loaded", "running"}
    /\ run < MaxRuns
    /\ NewProcess
    /\ prevFull' = FALSE
    /\ interrupted' = TRUE

Next ==
    \/ GetOrders
    \/ \E o \in Orders : StartOrder(o)
    \/ \E n \in Nodes : StartWorker(n)
    \/ \E n \in Nodes : FetchAndSave(n)
    \/ \E n \in Nodes \ Species : Enumerate(n)
    \/ \E n \in Nodes \ Species : Finish(n)
    \/ \E n \in Species : MarkSpecies(n)
    \/ \E n \in Nodes : AddCompleted(n)
    \/ EndRun
    \/ Rerun
    \/ Crash

\* The threads of ThreadSpec: process_family on one family, process_genus
\* on its two genera in the family's pool, process_species on one species
\* of each genus in the genus's pool.
Threads == {"fam", "gen1", "gen2", "sp1", "sp2"}

TKids(t) ==
    CASE t = "fam"  -> {"gen1", "gen2"}
      [] t = "gen1" -> {"sp1"}
      [] t = "gen2" -> {"sp2"}
      [] OTHER      -> {}

TLeaf(t) == t \in {"sp1", "sp2"}

\* No thread of ThreadSpec exists.
ThreadsIdle ==
    /\ tpc = [t \in Threads |-> "idle"]
    /\ jsonl_file = 0
    /\ opened = 0
    /\ file_write_lock = "none"
    /\ completion_file_lock = "none"
    /\ completed_lock = "none"
    /\ recfile = <<>>
    /\ evfile = <<>>
    /\ tsaved = [t \in Threads |-> FALSE]
    /\ tcompleted = {}

\* The order of NestSpec, with its families, genera and species as the
\* children API lists them; every pool is fed in reversed order.
NestChildren(n) ==
    CASE n = "O"  -> <<"C", "B", "A">>
      [] n = "A"  -> <<"A3", "A2", "A1">>
      [] n = "B"  -> <<"B2", "B1">>
      [] n = "A1" -> <<"A1z", "A1y", "A1x">>
      [] n = "A2" -> <<"A2y", "A2x">>
      [] n = "B1" -> <<"B1y", "B1x">>
      [] n = "B2" -> <<"B2y", "B2x">>
      [] OTHER    -> <<>>

NestFamilies == Range(NestChildren("O"))
NestGenera == UNION {Range(NestChildren(f)) : f \in NestFamilies}
NestSpecies == UNION {Range(NestChildren(g)) : g \in NestGenera}
NestNodes == {"O"} \cup NestFamilies \cup NestGenera \cup NestSpecies

\* No worker of NestSpec exists.
NestIdle ==
    /\ max_workers = MAX_WORKERS
    /\ npc = [n \in NestNodes |-> "idle"]

\* The handler of FetchSpec, not started.
HandlerIdle ==
    /\ hRank = "family"
    /\ hPc = "pending"
    /\ attempt = 0
    /\ responses = <<>>
    /\ sleeps = <<>>
    /\ hContent = "unset"
    /\ hSaved = FALSE
    /\ hRecords = 0
    /\ hEvents = 0
    /\ hCompleted = FALSE
    /\ hDelays = 0

Init == CrawlInit /\ HandlerIdle /\ ThreadsIdle /\ NestIdle

Spec == Init /\ [][Next]_vars

(***************************************************************************)
(* FetchSpec: get_page_content attempt by attempt, inside one handler.     *)
(***************************************************************************)
\* What one session.get(url, timeout=30) can do:
\*   "200"      status 200 with a non-empty body
\*   "200empty" status 200 with an empty body
\*   "404"      status 404
\*   "503"      any other status
\*   "ssleof"   SSLEOFError / SSLError whose text names UNEXPECTED_EOF
\*   "ssl"      any other requests SSLError
\*   "exc"      any other exception (timeout, connection reset, ...)
Responses == {"200", "200empty", "404", "503", "ssleof", "ssl", "exc"}

\* Faulty variant: 404 falls into the `else` of the status test and is
\* retried like any other status.
ReturnsOn200Only(resp) == resp \in {"200", "200empty"}

\* The attempt executes a `return`.
Returns(resp) == resp \in {"200", "200empty", "404"}

\* The value returned: response.text on 200, None on 404.
Returned(resp) ==
    CASE resp = "200"      -> "text"
      [] resp = "200empty" -> "empty"
      [] OTHER             -> "none"

\* Faulty variant: the status branch sleeps like the generic exception one.
BackoffShortOnStatus(resp) ==
    CASE resp = "503"    -> 3
      [] resp = "ssleof" -> 180
      [] resp = "ssl"    -> 10
      [] OTHER           -> 3

\* Faulty variant: no long cool-down for the unexpected-EOF class.
BackoffNoCooldown(resp) ==
    CASE resp = "503"    -> 10
      [] resp = "ssleof" -> 10
      [] resp = "ssl"    -> 10
      [] OTHER           -> 3

\* The argument of the time.sleep(...) of the branch taken.
Backoff(resp) ==
    CASE resp = "503"    -> 10
      [] resp = "ssleof" -> 180
      [] resp = "ssl"    -> 10
      [] OTHER           -> 3

HandlerInit ==
    /\ hRank \in {"family", "species"}
    /\ hPc = "pending"
    /\ attempt = 0
    /\ responses = <<>>
    /\ sleeps = <<>>
    /\ hContent = "unset"
    /\ hSaved = FALSE
    /\ hRecords = 0
    /\ hEvents = 0
    /\ hCompleted = FALSE
    /\ hDelays = 0

\* The fast-path test found the node not completed: get_page_content is
\* entered, `for attempt in range(max_retries)` starts.
HStart ==
    /\ hPc = "pending"
    /\ hPc' = "fetching"
    /\ attempt' = 0
    /\ UNCHANGED <<hRank, responses, sleeps, hContent, hSaved, hRecords,
                   hEvents, hCompleted, hDelays>>
    /\ UNCHANGED <<crawl, threads, nest>>

\* Faulty variant: the branches sleep without `if attempt < max_retries - 1`.
HAttemptSleepsAfterLast ==
    /\ hPc = "fetching"
    /\ attempt < MAX_RETRIES
    /\ \E resp \in Responses :
         /\ responses' = Append(responses, resp)
         /\ IF Returns(resp)
            THEN /\ hContent' = Returned(resp)
                 /\ hPc' = "returned"
                 /\ UNCHANGED <<attempt, sleeps>>
            ELSE /\ sleeps' = Append(sleeps, Backoff(resp))
                 /\ attempt' = attempt + 1
                 /\ IF attempt + 1 < MAX_RETRIES
                    THEN UNCHANGED <<hPc, hContent>>
                    ELSE /\ hContent' = "none"
                         /\ hPc' = "returned"
    /\ UNCHANGED <<hRank, hSaved, hRecords, hEvents, hCompleted, hDelays>>
    /\ UNCHANGED <<crawl, threads, nest>>

\* One iteration of the retry loop; after the last one the function falls
\* through to `return None`.
HAttempt ==
    /\ hPc = "fetching"
    /\ attempt < MAX_RETRIES
    /\ \E resp \in Responses :
         /\ responses' = Append(responses, resp)
         /\ IF Returns(resp)
            THEN /\ hContent' = Returned(resp)
                 /\ hPc' = "returned"
                 /\ UNCHANGED <<attempt, sleeps>>
            ELSE /\ sleeps' = IF attempt < MAX_RETRIES - 1
                              THEN Append(sleeps, Backoff(resp))
                              ELSE sleeps
                 /\ attempt' = attempt + 1
                 /\ IF attempt + 1 < MAX_RETRIES
                    THEN UNCHANGED <<hPc, hContent>>
                    ELSE /\ hContent' = "none"
                         /\ hPc' = "returned"
    /\ UNCHANGED <<hRank, hSaved, hRecords, hEvents, hCompleted, hDelays>>
    /\ UNCHANGED <<crawl, threads, nest>>

\* `if content: saved = save_page(...)`; process_family then sleeps and
\* goes on to its children, process_species goes on to its marking.
HSave ==
    /\ hPc = "returned"
    /\ \E ok \in BOOLEAN :
         /\ hSaved' = (Truthy(hContent) /\ ok)
         /\ hRecords' = IF Truthy(hContent) /\ ok THEN hRecords + 1 ELSE hRecords
    /\ IF hRank = "species"
       THEN hPc' = "finish" /\ UNCHANGED hDelays
       ELSE hPc' = "children" /\ hDelays' = hDelays + 1
    /\ UNCHANGED <<hRank, attempt, responses, sleeps, hContent, hEvents, hCompleted>>
    /\ UNCHANGED <<crawl, threads, nest>>

\* process_family: enumeration and the pool of children, seen from the
\* parent: they end with all(...) true or false, or the enumeration raises.
HChildren ==
    /\ hPc = "children"
    /\ \E outcome \in {"all", "some", "raise"} :
         hPc' = CASE outcome = "all"  -> "finish"
                  [] outcome = "some" -> "incomplete"
                  [] OTHER            -> "raised"
    /\ UNCHANGED <<hRank, attempt, responses, sleeps, hContent, hSaved,
                   hRecords, hEvents, hCompleted, hDelays>>
    /\ UNCHANGED <<crawl, threads, nest>>

\* The marking: mark_item_completed (the write may fail silently) and
\* completed[...].add; process_species sleeps after it.
HFinish ==
    /\ hPc = "finish"
    /\ IF hSaved
       THEN /\ \E ok \in BOOLEAN : hEvents' = IF ok THEN hEvents + 1 ELSE hEvents
            /\ hCompleted' = TRUE
            /\ hPc' = "completed"
       ELSE /\ hPc' = "incomplete"
            /\ UNCHANGED <<hEvents, hCompleted>>
    /\ hDelays' = IF hRank = "species" THEN hDelays + 1 ELSE hDelays
    /\ UNCHANGED <<hRank, attempt, responses, sleeps, hContent, hSaved, hRecords>>
    /\ UNCHANGED <<crawl, threads, nest>>

FetchNext ==
    \/ HStart
    \/ HAttempt
    \/ HSave
    \/ HChildren
    \/ HFinish

FetchInit == CrawlInit /\ HandlerInit /\ ThreadsIdle /\ NestIdle

FetchSpec == FetchInit /\ [][FetchNext]_vars

(***************************************************************************)
(* PoolSpec: one run of main() against the wide taxonomy, where order w1   *)
(* has more families than the family pool has threads.                     *)
(***************************************************************************)
PoolInit ==
    upstream = "wide" /\ FirstLaunch /\ HandlerIdle /\ ThreadsIdle /\ NestIdle

PoolNext ==
    \/ GetOrders
    \/ \E o \in Orders : StartOrder(o)
    \/ \E n \in Nodes : StartWorker(n)
    \/ \E n \in Nodes : FetchAndSave(n)
    \/ \E n \in Nodes \ Species : Enumerate(n)
    \/ \E n \in Nodes \ Species : Finish(n)
    \/ \E n \in Nodes : AddCompleted(n)
    \/ EndRun

PoolSpec == PoolInit /\ [][PoolNext]_vars

(***************************************************************************)
(* LoadSpec: load_completed_items() at the start of main(), over ledger    *)
(* files of every content up to MaxLines lines.                            *)
(***************************************************************************)
LedgerLines ==
    { [text |-> ""],
      [text |-> "{oops"],
      [value |-> 7],
      [page_type |-> "order", identifier |-> "o1"],
      [page_type |-> "family", identifier |-> "f1"],
      [page_type |-> "order", identifier |-> ""],
      [page_type |-> "subspecies", identifier |-> "x1"] }

LedgerFiles == UNION {[1..k -> LedgerLines] : k \in 0..MaxLines}

LoadInit ==
    /\ upstream = "deep"
    /\ run = 1
    /\ phase = "launched"
    /\ orders = <<>>
    /\ pc = [n \in Nodes |-> "idle"]
    /\ saved = [n \in Nodes |-> FALSE]
    /\ kids = [n \in Nodes |-> <<>>]
    /\ completed = EmptyCompleted
    /\ ledger \in LedgerFiles
    /\ store = EmptyBag
    /\ ledgerAtLoad = <<>>
    /\ storeAtLoad = EmptyBag
    /\ net = {}
    /\ prevFull = FALSE
    /\ faults = 0
    /\ delays = [n \in Nodes |-> 0]
    /\ interrupted = FALSE
    /\ HandlerIdle
    /\ ThreadsIdle
    /\ NestIdle

\* main(): completed = load_completed_items()
Load ==
    /\ phase = "launched"
    /\ completed' = LoadCompletedItems(ledger)
    /\ ledgerAtLoad' = ledger
    /\ phase' = "loaded"
    /\ UNCHANGED <<run, orders, pc, saved, kids, files, storeAtLoad, net,
                   prevFull, faults, ghost>>
    /\ UNCHANGED <<handler, upstream, threads, nest>>

LoadNext == Load

LoadSpec == LoadInit /\ [][LoadNext]_vars

(***************************************************************************)
(* ThreadSpec: process_family, process_genus and process_species threads   *)
(* of one family's subtree with every lock acquisition, the lazy opening   *)
(* of the record store in get_jsonl_file() and the two file appends taken  *)
(* step by step.  The run is under way: main() has fetched the order and   *)
(* either saved it (the record store is open) or not (jsonl_file is None). *)
(***************************************************************************)
ThreadInit ==
    /\ CrawlInit
    /\ HandlerIdle
    /\ NestIdle
    /\ tpc = [t \in Threads |-> IF t = "fam" THEN "queued" ELSE "idle"]
    /\ jsonl_file \in {0, 1}
    /\ opened = jsonl_file
    /\ file_write_lock = "none"
    /\ completion_file_lock = "none"
    /\ completed_lock = "none"
    /\ recfile = <<>>
    /\ evfile = <<>>
    /\ tsaved = [t \in Threads |-> FALSE]
    /\ tcompleted = {}

\* The fast path under completed_lock found the node not completed;
\* get_page_content returns the page, and save_page is entered, or None.
TFetch(t) ==
    /\ tpc[t] = "queued"
    /\ completed_lock = "none"
    /\ \E content \in {"text", "none"} :
         tpc' = [tpc EXCEPT ![t] = IF Truthy(content) THEN "get" ELSE "fetched"]
    /\ UNCHANGED <<jsonl_file, opened, file_write_lock, completion_file_lock,
                   completed_lock, recfile, evfile, tsaved, tcompleted>>
    /\ UNCHANGED <<crawl, handler, nest>>

\* save_page, up to get_jsonl_file()'s test `if jsonl_file is None`; an
\* exception before the write (extract_text_from_html) returns False.
TGetFile(t) ==
    /\ tpc[t] = "get"
    /\ \E raised \in BOOLEAN :
         tpc' = [tpc EXCEPT ![t] =
                   IF raised THEN "fetched"
                   ELSE IF jsonl_file = 0 THEN "open" ELSE "lockw"]
    /\ UNCHANGED <<jsonl_file, opened, file_write_lock, completion_file_lock,
                   completed_lock, recfile, evfile, tsaved, tcompleted>>
    /\ UNCHANGED <<crawl, handler, nest>>

\* get_jsonl_file(): jsonl_file = open(jsonl_path, 'a')
TOpen(t) ==
    /\ tpc[t] = "open"
    /\ opened' = opened + 1
    /\ jsonl_file' = opened + 1
    /\ tpc' = [tpc EXCEPT ![t] = "lockw"]
    /\ UNCHANGED <<file_write_lock, completion_file_lock, completed_lock,
                   recfile, evfile, tsaved, tcompleted>>
    /\ UNCHANGED <<crawl, handler, nest>>

\* Faulty variant: save_page writes without taking file_write_lock.
FileLockIgnored(t) == TRUE

\* `with file_write_lock:` can be entered.
FileLockFree(t) == file_write_lock = "none"

TLockFile(t) ==
    /\ tpc[t] = "lockw"
    /\ FileLockFree(t)
    /\ file_write_lock' = t
    /\ tpc' = [tpc EXCEPT ![t] = "write"]
    /\ UNCHANGED <<jsonl_file, opened, completion_file_lock, completed_lock,
                   recfile, evfile, tsaved, tcompleted>>
    /\ UNCHANGED <<crawl, handler, nest>>

\* jsonl_file.write(line): what exceeds the buffer reaches the file.
TWrite(t) ==
    /\ tpc[t] = "write"
    /\ recfile' = Append(recfile, <<t, 1>>)
    /\ tpc' = [tpc EXCEPT ![t] = "flush"]
    /\ UNCHANGED <<jsonl_file, opened, file_write_lock, completion_file_lock,
                   completed_lock, evfile, tsaved, tcompleted>>
    /\ UNCHANGED <<crawl, handler, nest>>

\* jsonl_file.flush(), end of the `with` block, `return True`.
TFlush(t) ==
    /\ tpc[t] = "flush"
    /\ recfile' = Append(recfile, <<t, 2>>)
    /\ file_write_lock' = IF file_write_lock = t THEN "none" ELSE file_write_lock
    /\ tsaved' = [tsaved EXCEPT ![t] = TRUE]
    /\ tpc' = [tpc EXCEPT ![t] = "fetched"]
    /\ UNCHANGED <<jsonl_file, opened, completion_file_lock, completed_lock,
                   evfile, tcompleted>>
    /\ UNCHANGED <<crawl, handler, nest>>

\* The children the parent submitted to its pool.
TListed(t) == {k \in TKids(t) : tpc[k] # "idle"}

\* process_species after save_page: mark when saved, else return.
\* process_family / process_genus after save_page: get_taxon_children and
\* the submission of every child to a fresh pool; a failed enumeration
\* returns [] and nothing is submitted.
TSpawn(t) ==
    /\ tpc[t] = "fetched"
    /\ IF TLeaf(t)
       THEN tpc' = [tpc EXCEPT ![t] = IF tsaved[t] THEN "marklock" ELSE "done"]
       ELSE \E listed \in BOOLEAN :
              tpc' = [k \in Threads |->
                        IF k = t THEN "join"
                        ELSE IF k \in TKids(t) /\ listed THEN "queued"
                        ELSE tpc[k]]
    /\ UNCHANGED <<jsonl_file, opened, file_write_lock, completion_file_lock,
                   completed_lock, recfile, evfile, tsaved, tcompleted>>
    /\ UNCHANGED <<crawl, handler, nest>>

\* The `with ThreadPoolExecutor(...)` block is left once every submitted
\* child has returned.
PoolDrained(t) == \A k \in TListed(t) : tpc[k] = "done"

\* process_family / process_genus: `with completed_lock:` and the marking
\* condition; without a mark the lock is released at once.
TResume(t) ==
    /\ tpc[t] = "join"
    /\ PoolDrained(t)
    /\ completed_lock = "none"
    /\ IF tsaved[t] /\ TListed(t) \subseteq tcompleted
       THEN /\ completed_lock' = t
            /\ tpc' = [tpc EXCEPT ![t] = "marklock"]
       ELSE /\ completed_lock' = "none"
            /\ tpc' = [tpc EXCEPT ![t] = "done"]
    /\ UNCHANGED <<jsonl_file, opened, file_write_lock, completion_file_lock,
                   recfile, evfile, tsaved, tcompleted>>
    /\ UNCHANGED <<crawl, handler, nest>>

\* mark_item_completed: `with completion_file_lock:`
TMarkLock(t) ==
    /\ tpc[t] = "marklock"
    /\ completion_file_lock = "none"
    /\ completion_file_lock' = t
    /\ tpc' = [tpc EXCEPT ![t] = "markwrite"]
    /\ UNCHANGED <<jsonl_file, opened, file_write_lock, completed_lock,
                   recfile, evfile, tsaved, tcompleted>>
    /\ UNCHANGED <<crawl, handler, nest>>

\* Faulty variant: a species keeps completion_file_lock until it has added
\* itself to the completed set.
LedgerLockKeptBySpecies(t) == IF TLeaf(t) THEN t ELSE "none"

\* The holder of completion_file_lock when mark_item_completed returns.
LedgerLockAfterMark(t) == "none"

\* mark_item_completed: the append, whose failure is logged and swallowed,
\* and the end of the `with` block.
TMarkWrite(t) ==
    /\ tpc[t] = "markwrite"
    /\ \E ok \in BOOLEAN :
         evfile' = IF ok THEN Append(evfile, t) ELSE evfile
    /\ completion_file_lock' = LedgerLockAfterMark(t)
    /\ tpc' = [tpc EXCEPT ![t] = "add"]
    /\ UNCHANGED <<jsonl_file, opened, file_write_lock, completed_lock,
                   recfile, tsaved, tcompleted>>
    /\ UNCHANGED <<crawl, handler, nest>>

\* completed[rank].add(id): a parent already holds completed_lock, a
\* species takes it for the add.
TAdd(t) ==
    /\ tpc[t] = "add"
    /\ completed_lock = (IF TLeaf(t) THEN "none" ELSE t)
    /\ tcompleted' = tcompleted \cup {t}
    /\ completed_lock' = "none"
    /\ completion_file_lock' =
           IF completion_file_lock = t THEN "none" ELSE completion_file_lock
    /\ tpc' = [tpc EXCEPT ![t] = "done"]
    /\ UNCHANGED <<jsonl_file, opened, file_write_lock, recfile, evfile,
                   tsaved>>
    /\ UNCHANGED <<crawl, handler, nest>>

ThreadNext ==
    \/ \E t \in Threads : TFetch(t)
    \/ \E t \in Threads : TGetFile(t)
    \/ \E t \in Threads : TOpen(t)
    \/ \E t \in Threads : TLockFile(t)
    \/ \E t \in Threads : TWrite(t)
    \/ \E t \in Threads : TFlush(t)
    \/ \E t \in Threads : TSpawn(t)
    \/ \E t \in Threads : TResume(t)
    \/ \E t \in Threads : TMarkLock(t)
    \/ \E t \in Threads : TMarkWrite(t)
    \/ \E t \in Threads : TAdd(t)

ThreadSpec == ThreadInit /\ [][ThreadNext]_vars

\* Every step of a thread that can be taken is eventually taken: the
\* interpreter switches threads and the pools hand out every submitted task.
TStep(t) ==
    \/ TFetch(t) \/ TGetFile(t) \/ TOpen(t) \/ TLockFile(t) \/ TWrite(t)
    \/ TFlush(t) \/ TSpawn(t) \/ TResume(t) \/ TMarkLock(t)
    \/ TMarkWrite(t) \/ TAdd(t)

ThreadFairSpec ==
    ThreadInit /\ [][ThreadNext]_vars /\ \A t \in Threads : WF_vars(TStep(t))

(***************************************************************************)
(* NestSpec: the pools of main(), process_family and process_genus for one *)
(* order, each a ThreadPoolExecutor(max_workers=max_workers) created       *)
(* inside a worker of the pool above.  A handler is "run" from the moment  *)
(* a pool worker picks it up (its page fetch included), "wait" while it    *)
(* is blocked in its own pool's `with` block, and "done" once returned.    *)
(***************************************************************************)
NestInit ==
    /\ CrawlInit
    /\ HandlerIdle
    /\ ThreadsIdle
    /\ max_workers \in 1..MaxWidth
    /\ npc = [n \in NestNodes |-> IF n = "O" THEN "run" ELSE "idle"]

NestParent(n) == CHOOSE p \in NestNodes : n \in Range(NestChildren(p))

\* Position of n in its parent's API list; tasks are submitted in reversed
\* order, so a larger position is submitted earlier.
NestIndex(n) ==
    CHOOSE i \in 1..Len(NestChildren(NestParent(n))) :
       NestChildren(NestParent(n))[i] = n

\* The handlers of the set that occupy a pool worker.
NestInFlight(S) == {n \in S : npc[n] \in {"run", "wait"}}

\* Faulty variant: the pool starts a thread for every submitted task.
NestPoolUnbounded(n) == TRUE

\* ThreadPoolExecutor(max_workers=max_workers): one of the pool's workers
\* is free.
NestWorkerFree(n) ==
    Cardinality(NestInFlight(Range(NestChildren(NestParent(n))))) < max_workers

\* A worker of the parent's pool takes the oldest queued task.
NStartWorker(n) ==
    /\ n # "O"
    /\ npc[n] = "queued"
    /\ NestWorkerFree(n)
    /\ \A k \in Range(NestChildren(NestParent(n))) :
          NestIndex(k) > NestIndex(n) => npc[k] # "queued"
    /\ npc' = [npc EXCEPT ![n] = "run"]
    /\ UNCHANGED <<max_workers, crawl, handler, threads>>

\* After its page fetch the handler submits every child to a fresh pool
\* and waits in the `with` block.
NSubmit(n) ==
    /\ n \notin NestSpecies
    /\ npc[n] = "run"
    /\ npc' = [k \in NestNodes |->
                 IF k = n THEN "wait"
                 ELSE IF k \in Range(NestChildren(n)) THEN "queued"
                 ELSE npc[k]]
    /\ UNCHANGED <<max_workers, crawl, handler, threads>>

\* process_species returns after its fetch; a parent returns once all the
\* tasks of its pool have returned.
NReturn(n) ==
    /\ IF n \in NestSpecies
       THEN npc[n] = "run"
       ELSE /\ npc[n] = "wait"
            /\ \A k \in Range(NestChildren(n)) : npc[k] = "done"
    /\ npc' = [npc EXCEPT ![n] = "done"]
    /\ UNCHANGED <<max_workers, crawl, handler, threads>>

NestNext ==
    \/ \E n \in NestNodes : NStartWorker(n)
    \/ \E n \in NestNodes : NSubmit(n)
    \/ \E n \in NestNodes : NReturn(n)

NestSpec == NestInit /\ [][NestNext]_vars

TypeOK ==
    /\ run \in 1..MaxRuns
    /\ phase \in {"launched", "loaded", "running", "ended", "aborted"}
    /\ pc \in [Nodes -> {"idle", "queued", "fetch", "enum", "wait", "mark", "add"} \cup Terminal]
    /\ saved \in [Nodes -> BOOLEAN]
    /\ \A r \in Ranks : completed[r] \subseteq Nodes


(***************************************************************************)
(* Vocabulary of the properties.                                           *)
(***************************************************************************)
\* The completed sets as load_completed_items() returned them.
LoadedCompleted == LoadCompletedItems(ledgerAtLoad)

\* Ledger lines appended by the current process.
AppendedEvents == {ledger[i] : i \in (Len(ledgerAtLoad) + 1)..Len(ledger)}

\* Record lines of n appended by the current process.
RecordsThisRun(n) == CopiesIn(Line(n), store) - CopiesIn(Line(n), storeAtLoad)

\* The step appends n's completion event to the ledger file.
AppendsEvent(n) ==
    /\ run' = run
    /\ Len(ledger') = Len(ledger) + 1
    /\ ledger'[Len(ledger')] = Line(n)

\* n's page was requested in this process and fetch or save failed.
FetchOrSaveFailed(n) == PageFetch(n) \in net /\ ~saved[n]

Subtree(n) == {n} \cup Descendants(n)

(***************************************************************************)
(* C1. Whenever a completion event for a node X is appended to the ledger, *)
(* X's own record has already been appended to the record store by the     *)
(* same process, and every child enumerated for X by that process is       *)
(* already in the in-memory completed set of the child's rank.             *)
(***************************************************************************)
C1_EventAfterRecordAndChildren ==
    [][\A n \in Nodes :
          AppendsEvent(n) =>
             /\ saved[n]
             /\ RecordsThisRun(n) >= 1
             /\ PageFetch(n) \in net
             /\ \A i \in 1..Len(kids[n]) :
                   kids[n][i] \in completed[ChildRank(Rank(n))]]_vars

\* The order o1 has its event in the ledger after both of its families.
C1_Witness ==
    /\ pc["o1"] = "add"
    /\ kids["o1"] = <<"f1", "f2">>
    /\ Line("o1") \in AppendedEvents
    /\ {"f1", "f2"} \subseteq completed["family"]

(***************************************************************************)
(* C2. At every reachable state, across runs and crashes at arbitrary      *)
(* points, every (page_type, identifier) with an event in the ledger file  *)
(* has at least one record in the record store file.                       *)
(***************************************************************************)
C2_LedgerImpliesRecord ==
    \A i \in 1..Len(ledger) : CopiesIn(ledger[i], store) >= 1

\* Crash-and-retry: the species was saved by two processes, marked by one.
C2_Witness ==
    /\ run = 2
    /\ CopiesIn(Line("s1"), store) = 2
    /\ Line("s1") \in AppendedEvents

(***************************************************************************)
(* C3. At the end of a run that was not interrupted, every non-leaf node   *)
(* visited in the run is in the completed set iff its own fetch-and-save   *)
(* succeeded in that run and every child enumerated for it is in the       *)
(* completed set.                                                          *)
(***************************************************************************)
C3_CompletedIffSavedAndChildren ==
    phase = "ended" =>
       \A n \in Nodes \ Species :
          PageFetch(n) \in net =>
             (n \in completed[Rank(n)]
                <=> (saved[n] /\ \A i \in 1..Len(kids[n]) :
                                    kids[n][i] \in completed[ChildRank(Rank(n))]))

(***************************************************************************)
(* C4. The completed set is monotonic: no step of a run removes an         *)
(* identifier from a per-rank set, and the sets held when run N returns    *)
(* are subsets of the sets loaded at the start of run N+1.                 *)
(***************************************************************************)
C4_CompletedMonotonic ==
    [][(run' = run \/ phase = "ended") =>
          \A r \in Ranks : completed[r] \subseteq completed'[r]]_vars

(***************************************************************************)
(* C5. A node found in the completed set of its rank when it is visited is *)
(* skipped with its whole subtree: no page fetch and no child enumeration  *)
(* for the node or a descendant, and no line for them is appended to the   *)
(* record store or the ledger.                                             *)
(***************************************************************************)
C5_SkipLeavesSubtreeUntouched ==
    /\ \A n \in Nodes :
          pc[n] \in {"fetch", "enum", "wait", "mark"} => n \notin completed[Rank(n)]
    /\ \A n \in Nodes :
          (PageFetch(n) \in net \/ ChildEnum(n) \in net)
             => n \notin LoadedCompleted[Rank(n)]
    /\ \A n \in Nodes :
          pc[n] = "skipped" =>
             /\ n \in completed[Rank(n)]
             /\ \A d \in Subtree(n) :
                   /\ PageFetch(d) \notin net
                   /\ ChildEnum(d) \notin net
                   /\ RecordsThisRun(d) = 0
                   /\ Line(d) \notin AppendedEvents
                   /\ d # n => pc[d] = "idle"

\* Second run: family f1, completed with its genus and species by the
\* first run, is skipped while its order is processed again.
C5_Witness ==
    /\ run = 2
    /\ phase = "ended"
    /\ pc["f1"] = "skipped"
    /\ pc["o1"] = "done"
    /\ CopiesIn(Line("s1"), store) = 1

(***************************************************************************)
(* C6. If a run ends with every enumerated order Completed, the next run   *)
(* performs only the root enumeration: no page fetch, no child             *)
(* enumeration, nothing appended to the record store or the ledger.        *)
(***************************************************************************)
C6_RerunAfterFullCompletionIsIdle ==
    prevFull =>
       /\ net \subseteq {ChildEnum(Root)}
       /\ store = storeAtLoad
       /\ ledger = ledgerAtLoad

(***************************************************************************)
(* C7. Vocabulary: the run started from a ledger in which some families of *)
(* order o are Completed and the remaining ones, and o, are not.           *)
(***************************************************************************)
RemainingFamilies(o) ==
    {f \in Range(ChildrenSeq(o)) : f \notin LoadedCompleted["family"]}

ResumeCase(o) ==
    /\ o \notin LoadedCompleted["order"]
    /\ RemainingFamilies(o) # {}
    /\ RemainingFamilies(o) # Range(ChildrenSeq(o))

RemainingSubtrees(o) == UNION {Subtree(f) : f \in RemainingFamilies(o)}

(***************************************************************************)
(* C7 as stated: in such a run the page fetches and child enumerations     *)
(* inside the order are only for the non-completed families and the nodes  *)
(* of their subtrees.                                                      *)
(***************************************************************************)
C7_OnlyRemainingFamilies ==
    \A o \in Orders :
       ResumeCase(o) =>
          \A req \in net :
             req.id \in Subtree(o) => req.id \in RemainingSubtrees(o)

(***************************************************************************)
(* C7 amended: in such a run the page fetches and child enumerations       *)
(* inside the order are only for the order itself, the non-completed       *)
(* families and the nodes of their subtrees; none is issued for a          *)
(* Completed family or a node of its subtree.                              *)
(***************************************************************************)
C7_OnlyOrderAndRemainingFamilies ==
    \A o \in Orders :
       ResumeCase(o) =>
          \A req \in net :
             req.id \in Subtree(o) => req.id \in {o} \cup RemainingSubtrees(o)

\* Resume with f2 Completed and f1 not: f1's subtree is crawled down to s1.
C7_Witness ==
    /\ run = 2
    /\ phase = "ended"
    /\ ResumeCase("o1")
    /\ RemainingFamilies("o1") = {"f1"}
    /\ {PageFetch("f1"), ChildEnum("f1"), PageFetch("g1"), PageFetch("s1")} \subseteq net
    /\ pc["f2"] = "skipped"

(***************************************************************************)
(* C8. If a node's own page fetch or record save fails in a run, neither   *)
(* the node nor any of its ancestors is marked Completed in that run: no   *)
(* ledger event for them, and they are not in the in-memory completed set. *)
(***************************************************************************)
C8_FailureBlocksNodeAndAncestors ==
    \A n \in Nodes :
       FetchOrSaveFailed(n) =>
          \A a \in {n} \cup Ancestors(n) :
             /\ a \notin completed[Rank(a)]
             /\ \A i \in 1..Len(ledger) : ledger[i] # Line(a)

\* The species failed; genus, family and order were saved, ran to the end
\* of their handlers and stayed Incomplete, while family f2 completed.
C8_Witness ==
    /\ phase = "ended"
    /\ FetchOrSaveFailed("s1")
    /\ saved["g1"] /\ saved["f1"] /\ saved["o1"]
    /\ pc["g1"] = "done" /\ pc["f1"] = "done" /\ pc["o1"] = "done"
    /\ "f2" \in completed["family"]

(***************************************************************************)
(* C9. No failure is fatal to the run: whatever fails or raises while one  *)
(* node is processed, every enumerated node is still visited before the    *)
(* process ends.                                                           *)
(***************************************************************************)
C9_EveryEnumeratedNodeVisited ==
    phase \in {"ended", "aborted"} => \A n \in Nodes : pc[n] # "queued"

(***************************************************************************)
(* C10. When a page fetch receives HTTP 404, that attempt is the last one  *)
(* and no backoff sleep follows it (a 404 on the first attempt: one        *)
(* attempt, zero sleeps); the node is FetchFailed, nothing is saved and no *)
(* ledger event for it is appended in that run.                            *)
(***************************************************************************)
C10_NotFoundIsTerminal ==
    \A i \in 1..Len(responses) :
       responses[i] = "404" =>
          /\ i = Len(responses)
          /\ Len(sleeps) = i - 1
          /\ hPc # "fetching"
          /\ hContent = "none"
          /\ ~hSaved
          /\ hRecords = 0
          /\ hEvents = 0
          /\ ~hCompleted
          /\ hPc # "completed"

\* family_999: a single attempt answered 404, children all completed,
\* the family is left Incomplete.
C10_Witness ==
    /\ hRank = "family"
    /\ responses = <<"404">>
    /\ sleeps = <<>>
    /\ hPc = "incomplete"
    /\ hDelays = 1


(***************************************************************************)
(* C11. One page fetch makes at most 5 HTTP attempts and at most 4 backoff *)
(* sleeps, none after the last attempt; when no attempt received HTTP 200  *)
(* it returns None, nothing is saved and the node is not marked Completed. *)
(***************************************************************************)
C11_AtMostFiveAttemptsFourSleeps ==
    /\ Len(responses) <= 5
    /\ Len(sleeps) <= 4
    /\ hPc \notin {"pending", "fetching"} => Len(sleeps) <= Len(responses) - 1
    /\ (/\ hPc \notin {"pending", "fetching"}
        /\ \A i \in 1..Len(responses) : responses[i] \notin {"200", "200empty"})
          => /\ hContent = "none"
             /\ ~hSaved
             /\ hRecords = 0
             /\ hEvents = 0
             /\ ~hCompleted
             /\ hPc # "completed"

\* Retries exhausted: five attempts, four sleeps, the species left Incomplete.
C11_Witness ==
    /\ hRank = "species"
    /\ responses = <<"503", "exc", "ssl", "ssleof", "503">>
    /\ Len(sleeps) = 4
    /\ hPc = "incomplete"

(***************************************************************************)
(* C12. For every k in 0..4: when the page fetch of a species receives k   *)
(* responses with a status other than 200 and 404 and then a 200 with      *)
(* content, exactly k sleeps of 10 s are made, and, save_page having       *)
(* written its line, exactly one record is appended and the species ends   *)
(* Completed.                                                              *)
(***************************************************************************)
RetryPattern(k) == [i \in 1..(k + 1) |-> IF i <= k THEN "503" ELSE "200"]

C13_BackoffByClass ==
    \A i \in 1..Len(sleeps) :
       sleeps[i] = CASE responses[i] = "503"    -> 10
                     [] responses[i] = "ssleof" -> 180
                     [] OTHER                   -> 3

(***************************************************************************)
(* C13 amended: the sleep before a retry is 10 s after an HTTP status      *)
(* other than 200 and 404, 180 s after an SSL error that reports an        *)
(* unexpected EOF, 10 s after any other SSL error, and 3 s after every     *)
(* other exception.                                                        *)
(***************************************************************************)
C13_BackoffByClassWithSSL ==
    /\ Len(sleeps) <= Len(responses)
    /\ \A i \in 1..Len(sleeps) :
          sleeps[i] = CASE responses[i] = "503"    -> 10
                        [] responses[i] = "ssleof" -> 180
                        [] responses[i] = "ssl"    -> 10
                        [] responses[i] = "exc"    -> 3

\* One failed attempt of each class, then a page.
C13_Witness ==
    /\ responses = <<"503", "ssleof", "ssl", "exc", "200">>
    /\ sleeps = <<10, 180, 10, 3>>
    /\ hPc = "returned"

(***************************************************************************)
(* C14. Whenever an attempt receives HTTP 200 the fetch is a success       *)
(* whatever the body, an empty one included: the handler takes the page    *)
(* for fetched and goes on to save it.                                     *)
(***************************************************************************)
C14_Every200IsFetched ==
    \A i \in 1..Len(responses) :
       responses[i] \in {"200", "200empty"} =>
          /\ hPc # "fetching"
          /\ Truthy(hContent)


(***************************************************************************)
(* C15. At every instant the number of families being processed (a worker  *)
(* between the start of the family's page fetch and its return) is at most *)
(* MAX_WORKERS, however many families the order has; orders are processed  *)
(* one at a time, so the families in flight all belong to one order.       *)
(***************************************************************************)
InFlight(n) == pc[n] \in {"fetch", "enum", "wait", "add"}

C15_FamilyPoolBound ==
    /\ Cardinality({f \in Families : InFlight(f)}) <= MAX_WORKERS
    /\ Cardinality({o \in Orders : InFlight(o)}) <= 1
    /\ \A f \in Families : InFlight(f) => InFlight(Parent(f))
    /\ \A f, g \in Families : (InFlight(f) /\ InFlight(g)) => Parent(f) = Parent(g)

\* Order w1 has four families: three are in flight, the fourth waits in
\* the executor's queue.
C15_Witness ==
    /\ upstream = "wide"
    /\ Len(kids["w1"]) = 4
    /\ Cardinality({f \in Range(kids["w1"]) : InFlight(f)}) = MAX_WORKERS
    /\ \E f \in Range(kids["w1"]) : pc[f] = "queued"


(***************************************************************************)
(* C16. A node's children are enumerated only after the node's own page    *)
(* fetch has been attempted and has returned, so no descendant is queued   *)
(* or fetched before the fetch attempt of each of its ancestors.           *)
(***************************************************************************)
C16_ParentFetchBeforeChildren ==
    /\ \A n \in Nodes :
          ChildEnum(n) \in net => (PageFetch(n) \in net /\ pc[n] # "fetch")
    /\ \A d \in Nodes :
          (pc[d] # "idle" \/ PageFetch(d) \in net) =>
             \A a \in Ancestors(d) :
                /\ PageFetch(a) \in net
                /\ ChildEnum(a) \in net
                /\ pc[a] \notin {"idle", "queued", "fetch", "enum"}

\* The order's own fetch failed; its subtree was crawled all the same, down
\* to the species, after each ancestor's attempt.
C16_Witness ==
    /\ PageFetch("o1") \in net
    /\ ~saved["o1"]
    /\ PageFetch("s1") \in net
    /\ pc["g1"] = "wait"


(***************************************************************************)
(* C17. An identifier enters the in-memory completed set only after its    *)
(* event has been appended to the ledger file: at every reachable state    *)
(* the in-memory set of each rank is a subset of the identifiers that have *)
(* an event of that rank in the ledger file.                               *)
(***************************************************************************)
LedgerIds(r) ==
    {ledger[i].identifier : i \in {j \in 1..Len(ledger) : ledger[j].page_type = r}}

C17_MemorySubsetOfLedger ==
    \A r \in Ranks : completed[r] \subseteq LedgerIds(r)

(***************************************************************************)
(* C19. The ledger file alone satisfies the completion invariant: when the *)
(* event of a non-leaf node X is appended, every child enumerated for X by *)
(* that run already has its own event at an earlier position of the file.  *)
(***************************************************************************)
C19_LedgerChildrenBeforeParent ==
    [][\A n \in Nodes \ Species :
          AppendsEvent(n) =>
             \A i \in 1..Len(kids[n]) :
                \E j \in 1..Len(ledger) : ledger[j] = Line(kids[n][i])]_vars


(***************************************************************************)
(* C18. For every content of the ledger file, load_completed_items()       *)
(* returns for each rank exactly the identifiers of the well-formed event  *)
(* lines of that rank: blank lines, lines that are not JSON and events     *)
(* with a page_type outside the four ranks are skipped without preventing  *)
(* any other line from being loaded.                                       *)
(***************************************************************************)
WellFormed(line) ==
    /\ "page_type" \in DOMAIN line
    /\ line.page_type \in Ranks
    /\ line.identifier # ""

C18_LoadReturnsAllWellFormed ==
    phase = "loaded" =>
       \A r \in Ranks :
          completed[r] =
             {ledger[i].identifier :
                i \in {j \in 1..Len(ledger) :
                          WellFormed(ledger[j]) /\ ledger[j].page_type = r}}


(***************************************************************************)
(* C20. When the child enumeration of a node fails, get_taxon_children     *)
(* returns the empty list without raising; a node whose own page was saved *)
(* is then marked Completed as if it had no children, and the next run     *)
(* finds it Completed, so that its real subtree is skipped.                *)
(***************************************************************************)
\* n has children upstream, and its handler got the empty list.
SoftFailed(n) ==
    /\ ChildrenSeq(n) # <<>>
    /\ ChildEnum(n) \in net
    /\ pc[n] \in {"wait", "add", "done"}
    /\ kids[n] = <<>>

C20_FailedEnumerationCompletesNode ==
    /\ [](\A n \in Nodes :
            (SoftFailed(n) /\ saved[n] /\ pc[n] = "done")
               => n \in completed[Rank(n)])
    /\ [][\A n \in Nodes :
            (run' = run + 1 /\ SoftFailed(n) /\ n \in completed[Rank(n)])
               => n \in completed'[Rank(n)]]_vars


(***************************************************************************)
(* C22. After any sequence of runs and crashes the ledger holds at most    *)
(* one event per (page_type, identifier): a node that has a ledger event   *)
(* is never marked Completed again.                                        *)
(***************************************************************************)
C22_AtMostOneEventPerNode ==
    \A i, j \in 1..Len(ledger) : ledger[i] = ledger[j] => i = j

\* The process was killed after s1's event; the next one skips s1 and
\* appends the event of its genus.
C22_Witness ==
    /\ run = 2
    /\ interrupted
    /\ ledgerAtLoad = <<Line("s1")>>
    /\ pc["s1"] = "skipped"
    /\ ledger = <<Line("s1"), Line("g1")>>

(***************************************************************************)
(* C23. A species is a leaf: it is marked Completed if and only if its own *)
(* page fetch and record append succeeded, and no child enumeration is     *)
(* ever issued for it.                                                     *)
(***************************************************************************)
C23_SpeciesIsLeaf ==
    \A s \in Species :
       /\ ChildEnum(s) \notin net
       /\ pc[s] \notin {"enum", "wait", "raised"}
       /\ kids[s] = <<>>
       /\ pc[s] \in {"mark", "add"} => saved[s]
       /\ (PageFetch(s) \in net /\ pc[s] = "done")
             => (s \in completed["species"] <=> saved[s])

\* The species completed while its genus, whose page failed, did not.
C23_Witness ==
    /\ pc["s1"] = "done"
    /\ saved["s1"]
    /\ "s1" \in completed["species"]
    /\ pc["g1"] = "done"
    /\ "g1" \notin completed["genus"]

(***************************************************************************)
(* C25. After the page fetch of a visited node, succeeded or failed, the   *)
(* handler makes exactly one politeness delay before it enumerates         *)
(* children or returns; a node skipped by the fast-path incurs none.       *)
(***************************************************************************)
C25_OneDelayPerFetch ==
    \A n \in Nodes :
       /\ pc[n] \in {"idle", "queued", "fetch", "skipped"} => delays[n] = 0
       /\ (n \notin Species /\ pc[n] \in {"enum", "wait", "add", "raised"})
             => delays[n] = 1
       /\ (n \in Families \cup Genera \cup Species /\ pc[n] = "done")
             => delays[n] = 1

\* Second run: f2 skipped without a delay, f1 fetched in vain and s1
\* fetched with success, one delay each.
C25_Witness ==
    /\ run = 2
    /\ pc["f2"] = "skipped" /\ delays["f2"] = 0
    /\ pc["f1"] = "done" /\ ~saved["f1"] /\ delays["f1"] = 1
    /\ pc["s1"] = "done" /\ saved["s1"] /\ delays["s1"] = 1

(***************************************************************************)
(* C27. A node whose own page fetch or save failed still goes on to its    *)
(* children: they are enumerated and processed in the same run and can be  *)
(* marked Completed in the ledger, while the node itself ends Incomplete.  *)
(***************************************************************************)
C27_FailedNodeStillEnumerates ==
    \A n \in Nodes \ Species :
       FetchOrSaveFailed(n) =>
          /\ pc[n] \in {"enum", "wait", "done", "raised"}
          /\ pc[n] # "enum" => ChildEnum(n) \in net
          /\ pc[n] = "done" => \A i \in 1..Len(kids[n]) : pc[kids[n][i]] \in Terminal
          /\ n \notin completed[Rank(n)]
          /\ Line(n) \notin AppendedEvents

\* The family's page failed; its genus and species have their events.
C27_Witness ==
    /\ FetchOrSaveFailed("f1")
    /\ pc["f1"] = "done"
    /\ kids["f1"] = <<"g1">>
    /\ {Line("g1"), Line("s1")} \subseteq AppendedEvents
    /\ "f1" \notin completed["family"]

(***************************************************************************)
(* C30. When the root enumeration of orders fails or returns nothing, the  *)
(* run ends at once: no page fetch, no child enumeration, and the record   *)
(* store, the ledger file and the loaded completed sets are unchanged.     *)
(***************************************************************************)
RootEnumerationFailed == ChildEnum(Root) \in net /\ orders = <<>>

C30_FailedRootEnumerationEndsRun ==
    RootEnumerationFailed =>
       /\ phase \in {"ended", "aborted"}
       /\ net = {ChildEnum(Root)}
       /\ store = storeAtLoad
       /\ ledger = ledgerAtLoad
       /\ completed = LoadedCompleted
       /\ \A n \in Nodes : pc[n] = "idle"

\* A second run whose root enumeration failed: ended, with what the first
\* run left in the files.
C30_Witness ==
    /\ run = 2
    /\ RootEnumerationFailed
    /\ phase = "ended"
    /\ ledger # <<>>
    /\ completed = LoadCompletedItems(ledger)


(***************************************************************************)
(* C24. Vocabulary: the current process has met no failure so far -- every *)
(* fetch and save succeeded, every enumeration returned the taxon's        *)
(* children, every marking wrote its event.                                *)
(***************************************************************************)
NoFailureThisRun ==
    /\ phase # "aborted"
    /\ ChildEnum(Root) \in net => orders = ChildrenSeq(Root)
    /\ \A n \in Nodes :
          /\ pc[n] # "raised"
          /\ PageFetch(n) \in net => saved[n]
          /\ (ChildEnum(n) \in net /\ pc[n] \in {"wait", "add", "done"})
                => kids[n] = ChildrenSeq(n)
          /\ (n \in completed[Rank(n)] /\ n \notin LoadedCompleted[Rank(n)])
                => Line(n) \in AppendedEvents

(***************************************************************************)
(* C24. After a process was killed at any point, the next run needs        *)
(* nothing but load_completed_items(): when it meets no failure and runs   *)
(* to its end, every node with a ledger event was skipped, every node      *)
(* fetched before and left without a ledger event was fetched again        *)
(* together with its ancestors, and every enumerated node is Completed.    *)
(***************************************************************************)
C24_CrashRecoveryByReplay ==
    (interrupted /\ phase = "ended" /\ NoFailureThisRun) =>
       \A n \in Nodes :
          /\ n \in LoadedCompleted[Rank(n)]
                => /\ PageFetch(n) \notin net
                   /\ ChildEnum(n) \notin net
                   /\ pc[n] \in {"idle", "skipped"}
          /\ (n \notin LoadedCompleted[Rank(n)] /\ CopiesIn(Line(n), storeAtLoad) >= 1)
                => /\ PageFetch(n) \in net
                   /\ \A a \in Ancestors(n) : PageFetch(a) \in net
          /\ pc[n] # "idle" => n \in completed[Rank(n)]

(***************************************************************************)
(* Vocabulary of ThreadSpec.                                               *)
(***************************************************************************)
\* Number of records of t that reached the record store whole.
WholeRecords(t) ==
    Cardinality({i \in 1..Len(recfile) : recfile[i] = <<t, 2>>})

\* t is inside save_page's `with file_write_lock:` block.
Writing(t) == tpc[t] \in {"write", "flush"}

(***************************************************************************)
(* C21. Under every interleaving of concurrent save_page calls, the record *)
(* store consists of whole record lines only (the two halves of a record   *)
(* are adjacent; only the last line may be half written, by the thread     *)
(* that is about to flush it), exactly one per save_page call that         *)
(* returned True.                                                          *)
(***************************************************************************)
C21_WholeLinesOnePerSave ==
    /\ \A i \in 1..Len(recfile) :
          /\ recfile[i][2] = 1 =>
                IF i < Len(recfile)
                THEN recfile[i + 1] = <<recfile[i][1], 2>>
                ELSE tpc[recfile[i][1]] = "flush"
          /\ recfile[i][2] = 2 =>
                i > 1 /\ recfile[i - 1] = <<recfile[i][1], 1>>
    /\ \A t \in Threads : WholeRecords(t) = (IF tsaved[t] THEN 1 ELSE 0)

\* One worker is between write and flush while another waits for the lock,
\* and an earlier record is already whole in the file.
C21_Witness ==
    \E t, u \in Threads :
       /\ t # u
       /\ tpc[t] = "flush"
       /\ tpc[u] = "lockw"
       /\ \E v \in Threads : tsaved[v]

(***************************************************************************)
(* C29. Within a run the record store is opened at most once, also when    *)
(* the first save_page calls come from several workers at the same time.   *)
(***************************************************************************)
C29_OpenedAtMostOnce == opened <= 1

\* No thread is running and no lock is held.
AllReturned ==
    /\ \A t \in Threads : tpc[t] \in {"idle", "done"}
    /\ file_write_lock = "none"
    /\ completion_file_lock = "none"
    /\ completed_lock = "none"

\* A holder of a file lock is inside that file's append and acquires
\* nothing; only completed_lock is held across another acquisition.
LockOrder ==
    \A t \in Threads :
       /\ file_write_lock = t => Writing(t)
       /\ completion_file_lock = t => tpc[t] = "markwrite"
       /\ completed_lock = t => tpc[t] \in {"marklock", "markwrite", "add"}

\* A parent past its pool has every submitted child returned.
ResumedAfterChildren ==
    \A t \in Threads :
       tpc[t] \in {"marklock", "markwrite", "add", "done"} =>
          \A k \in TListed(t) : tpc[k] = "done"

(***************************************************************************)
(* C28. Under fair scheduling the threads of the subtree all return and    *)
(* every lock is free in the end; completion_file_lock is only ever taken  *)
(* by a thread that holds completed_lock or no lock, never the reverse,    *)
(* and a parent goes on only after all the workers of its pool returned.   *)
(***************************************************************************)
C28_TerminatesInLockOrder ==
    /\ <>[]AllReturned
    /\ []LockOrder
    /\ []ResumedAfterChildren

\* A genus holds completed_lock and waits for completion_file_lock, which
\* a species of the other genus holds while it writes its event.
C28_Witness ==
    \E g \in {"gen1", "gen2"} : \E sp \in {"sp1", "sp2"} :
       /\ completed_lock = g
       /\ tpc[g] = "marklock"
       /\ completion_file_lock = sp
       /\ tpc[sp] = "markwrite"

(***************************************************************************)
(* C26. With the pool bound W handed to every level, at most W family      *)
(* workers, at most W*W genus workers and at most W*W*W species workers    *)
(* are in flight at any instant.  That no smaller cap exists is the        *)
(* reachability of C26_Witness.                                            *)
(***************************************************************************)
C26_NestedPoolBounds ==
    /\ Cardinality(NestInFlight(NestFamilies)) <= max_workers
    /\ Cardinality(NestInFlight(NestGenera)) <= max_workers * max_workers
    /\ Cardinality(NestInFlight(NestSpecies))
          <= max_workers * max_workers * max_workers

\* With W = 2: two families, four genera and eight species pages in flight.
C26_Witness ==
    /\ max_workers = 2
    /\ Cardinality(NestInFlight(NestFamilies)) = 2
    /\ Cardinality(NestInFlight(NestGenera)) = 4
    /\ Cardinality({n \in NestSpecies : npc[n] = "run"}) = 8

=============================================================================
